---- MODULE Spec2Model ----
(***************************************************************************)
(* A model of stackalloc (src/src/lib.rs): runtime-sized stack buffers     *)
(* handed to a closure, reclaimed when the closure returns or panics.      *)
(*                                                                         *)
(* Three specifications share this module:                                 *)
(*   SpecOverlay  the typed overlay's arithmetic (stackalloc_uninit and    *)
(*                helpers::align_buffer_to) on a machine word of UsizeBits *)
(*                bits, for both build profiles;                           *)
(*   SpecAlloca   alloca / alloca_zeroed: trampoline, unwind capture,      *)
(*                reclamation and re-raise, with nested invocations;       *)
(*   SpecFill     the initialization strategies (stackalloc_with and its   *)
(*                wrappers, stackalloc_with_iter and its wrappers) with an *)
(*                instrumented element type that counts destructions.      *)
(***************************************************************************)
EXTENDS Integers, Sequences, FiniteSets

(***************************************************************************)
(* Bounds of the model.                                                    *)
(***************************************************************************)
\* width of usize in bits (the real targets have 32 or 64)
UsizeBits == 5
\* small element counts tried by SpecOverlay (besides the near-overflow ones)
MaxCount == 2

\* bytes of stack available to SpecAlloca
StackSize == 3
\* largest byte count passed to alloca / alloca_zeroed in SpecAlloca
MaxSize == 2
\* deepest nesting of alloca invocations in SpecAlloca
MaxDepth == 2
\* byte values are 0 .. MaxByte
MaxByte == 1

\* largest slot count asked of an initialization strategy in SpecFill
MaxSlots == 3
\* longest source sequence drained in SpecFill
MaxItems == 3

UsizeModulus == 2 ^ UsizeBits

(***************************************************************************)
(* Machine-word arithmetic.  rustc's debug profile checks usize arithmetic *)
(* and panics on overflow; the release profile wraps modulo 2^UsizeBits.   *)
(***************************************************************************)
wrapping(x) == x % UsizeModulus
overflows(x) == x >= UsizeModulus

\* element types T as (size_of, align_of); MaybeUninit<T> has T's layout.
\* Alignments are powers of two and sizes are multiples of the alignment.
ElemTypes ==
    { [size |-> 0, align |-> 1],
      [size |-> 1, align |-> 1],
      [size |-> 2, align |-> 2],
      [size |-> 4, align |-> 4] }
size_of(T) == T.size
align_of(T) == T.align

\* counts handed to stackalloc_uninit: small ones, and those around the
\* point where size_of * count + align_of leaves the machine word
OverlayCounts ==
    (0 .. MaxCount)
      \cup { UsizeModulus \div 4 - 1, UsizeModulus \div 4,
             UsizeModulus \div 2, UsizeModulus - 1 }

VARIABLES
    o_pc,          \* position inside stackalloc_uninit
    o_T,           \* the element type T
    o_count,       \* `size`: the number of elements asked for
    o_debug,       \* build profile: TRUE = debug (overflow checks and
                   \*   debug assertions on), FALSE = release
    o_size_bytes,  \* `size_bytes`, as computed
    o_base,        \* buf.as_mut_ptr(): start of the byte region
    o_abuf,        \* `abuf`
    o_view,        \* the slice handed to the callback: [start, len]
    o_panic        \* why the call panicked, or "none"

VARIABLES
    a_stack,       \* the alloca invocations in progress, outermost first
    a_live,        \* the stack regions the extender has pushed and not yet
                   \*   popped, outermost first
    a_sp,          \* the stack pointer (the stack grows downwards)
    a_mem,         \* the bytes of stack memory
    a_result,      \* what the outermost caller got from its last call
    a_fatal        \* the process was terminated (stack exhaustion)

avars == << a_stack, a_live, a_sp, a_mem, a_result, a_fatal >>

ovars == << o_pc, o_T, o_count, o_debug, o_size_bytes, o_base, o_abuf,
            o_view, o_panic >>

VARIABLES
    f_pc,          \* position inside the initialization strategy
    f_strategy,    \* which public function was called
    f_size,        \* its `size` argument (0 when it takes none)
    f_needs_drop,  \* mem::needs_drop::<T>()
    f_src,         \* the source iterator: its items, how many were pulled,
                   \*   and the lengths it reports
    f_count,       \* the slot count handed to stackalloc_uninit
    f_buf,         \* the slots of the uninitialised view, with the number
                   \*   of destructor runs on each
    f_done,        \* `done` of stackalloc_with_iter
    f_view,        \* the elements of the slice handed to the callback
    f_live,        \* the byte region is live
    f_rval,        \* alloca's rval
    f_did,         \* how the closure given to alloca ended
    f_result       \* what the caller of the strategy got

fvars == << f_pc, f_strategy, f_size, f_needs_drop, f_src, f_count, f_buf,
            f_done, f_view, f_live, f_rval, f_did, f_result >>

\* what each specification leaves alone
outside_overlay == << avars, fvars >>
outside_alloca == << ovars, fvars >>
outside_fill == << ovars, avars >>

NoView == [start |-> 0, len |-> 0]

\* lib.rs:322  (size_of::<T>() * size) + align_of::<T>(), mathematically
size_bytes_exact(T, count) == (size_of(T) * count) + align_of(T)
\* ... and as the release profile computes it
size_bytes(T, count) == wrapping(wrapping(size_of(T) * count) + align_of(T))
\* ... which the debug profile refuses to compute when this holds
size_bytes_overflows(T, count) ==
    \/ overflows(size_of(T) * count)
    \/ overflows(size_of(T) * count + align_of(T))

\* lib.rs:267-271  (ptr + align_of - ptr % align_of) as *mut T
align_buffer_to(ptr, al) ==
    wrapping(wrapping(ptr + al) + UsizeModulus - (ptr % al))

\* lib.rs:325  buf.as_ptr_range().contains(&abuf): the half-open range
\* [buf.as_ptr(), buf.as_ptr() + buf.len())
as_ptr_range_contains(base, len, ptr) == base <= ptr /\ ptr < base + len

\* no stackalloc_uninit call is being followed (SpecAlloca, SpecFill)
OverlayIdle ==
    /\ o_pc = "idle"
    /\ o_T = [size |-> 1, align |-> 1]
    /\ o_count = 0
    /\ o_debug = FALSE
    /\ o_size_bytes = 0
    /\ o_base = 0
    /\ o_abuf = 0
    /\ o_view = NoView
    /\ o_panic = "none"

OverlayStart ==
    /\ o_pc = "call"
    /\ o_T \in ElemTypes
    /\ o_count \in OverlayCounts
    /\ o_debug \in BOOLEAN
    /\ o_size_bytes = 0
    /\ o_base = 0
    /\ o_abuf = 0
    /\ o_view = NoView
    /\ o_panic = "none"

\* lib.rs:322  let size_bytes = ...
stackalloc_uninit_size ==
    /\ o_pc = "call"
    /\ IF o_debug /\ size_bytes_overflows(o_T, o_count)
         THEN /\ o_pc' = "panicked"
              /\ o_panic' = "arithmetic overflow"
              /\ UNCHANGED o_size_bytes
         ELSE /\ o_pc' = "alloca"
              /\ o_size_bytes' = size_bytes(o_T, o_count)
              /\ UNCHANGED o_panic
    /\ UNCHANGED << o_T, o_count, o_debug, o_base, o_abuf, o_view >>
    /\ UNCHANGED outside_overlay

\* lib.rs:323  alloca(size_bytes, ..): the extender hands back a region of
\* size_bytes bytes at some non-null address; the region is mapped memory,
\* so it ends below the top of the address space.
stackalloc_uninit_alloca(p) ==
    /\ o_pc = "alloca"
    /\ p + o_size_bytes < UsizeModulus
    /\ o_base' = p
    /\ o_pc' = "closure"
    /\ UNCHANGED << o_T, o_count, o_debug, o_size_bytes, o_abuf, o_view,
                    o_panic >>
    /\ UNCHANGED outside_overlay

\* lib.rs:324  let abuf = align_buffer_to::<MaybeUninit<T>>(buf.as_mut_ptr())
stackalloc_uninit_align ==
    /\ o_pc = "closure"
    /\ IF o_debug /\ overflows(o_base + align_of(o_T))
         THEN /\ o_pc' = "panicked"
              /\ o_panic' = "arithmetic overflow"
              /\ UNCHANGED o_abuf
         ELSE /\ o_pc' = "assert"
              /\ o_abuf' = align_buffer_to(o_base, align_of(o_T))
              /\ UNCHANGED o_panic
    /\ UNCHANGED << o_T, o_count, o_debug, o_size_bytes, o_base, o_view >>
    /\ UNCHANGED outside_overlay

\* lib.rs:325-328  debug_assert!(..contains(abuf)), then
\* callback(slice::from_raw_parts_mut(abuf, size))
stackalloc_uninit_callback ==
    /\ o_pc = "assert"
    /\ IF o_debug /\ ~as_ptr_range_contains(o_base, o_size_bytes, o_abuf)
         THEN /\ o_pc' = "panicked"
              /\ o_panic' = "assertion failed"
              /\ UNCHANGED o_view
         ELSE /\ o_pc' = "callback"
              /\ o_view' = [start |-> o_abuf, len |-> o_count]
              /\ UNCHANGED o_panic
    /\ UNCHANGED << o_T, o_count, o_debug, o_size_bytes, o_base, o_abuf >>
    /\ UNCHANGED outside_overlay

\* lib.rs:327-329  the callback returns and so does stackalloc_uninit
stackalloc_uninit_return ==
    /\ o_pc = "callback"
    /\ o_pc' = "returned"
    /\ UNCHANGED << o_T, o_count, o_debug, o_size_bytes, o_base, o_abuf,
                    o_view, o_panic >>
    /\ UNCHANGED outside_overlay

OverlayNext ==
    \/ stackalloc_uninit_size
    \/ \E p \in 1 .. (UsizeModulus - 1) : stackalloc_uninit_alloca(p)
    \/ stackalloc_uninit_align
    \/ stackalloc_uninit_callback
    \/ stackalloc_uninit_return

(***************************************************************************)
(* alloca and alloca_zeroed (lib.rs:162-212, 301-311).                     *)
(*                                                                         *)
(* The stack is the addresses 1 .. StackSize and grows downwards from      *)
(* StackSize + 1.  The foreign routine ffi::alloca_trampoline (the Stack   *)
(* Frame Extender) is not among the sources: it is modelled from the       *)
(* spec's section 4.1 by alloca_trampoline_extend, _exhausted and _return. *)
(***************************************************************************)
Bytes == 0 .. MaxByte
StackAddrs == 1 .. StackSize
Sizes == 0 .. MaxSize

\* what a computation does in the end, and what a caller gets back
NoOutcome == [tag |-> "none", val |-> "-"]
Outcomes == { [tag |-> "ok", val |-> "v"], [tag |-> "panic", val |-> "boom"] }

\* lib.rs:166  let mut rval = MaybeUninit::uninit()
RvalUninit == [tag |-> "uninit", val |-> "-"]

\* lib.rs:179  std::panic::catch_unwind(AssertUnwindSafe(|| callback(slice)))
catch_unwind(outcome) ==
    IF outcome.tag = "panic"
      THEN [tag |-> "Err", val |-> outcome.val]
      ELSE [tag |-> "Ok", val |-> outcome.val]

\* the no_std arm (lib.rs:208-211): Err(()) => core::panic!(), the payload
\* is not carried
alloca_match_no_payload(rval) ==
    IF rval.tag = "Ok"
      THEN [tag |-> "ok", val |-> rval.val]
      ELSE [tag |-> "panic", val |-> "()"]

\* lib.rs:202-206  match rval { Ok(v) => v, Err(pan) => resume_unwind(pan) }
alloca_match(rval) ==
    IF rval.tag = "Ok"
      THEN [tag |-> "ok", val |-> rval.val]
      ELSE [tag |-> "panic", val |-> rval.val]

\* zeroing one byte too few
write_bytes_short(mem, ptr, len) ==
    [a \in DOMAIN mem |-> IF ptr <= a /\ a < ptr + len - 1 THEN 0 ELSE mem[a]]

\* lib.rs:307  ptr::write_bytes(buf.as_mut_ptr(), 0, buf.len())
write_bytes(mem, ptr, len) ==
    [a \in DOMAIN mem |-> IF ptr <= a /\ a < ptr + len THEN 0 ELSE mem[a]]

\* lib.rs:162-166  a fresh invocation of alloca (kind "alloca") or of
\* alloca_zeroed (kind "alloca_zeroed", lib.rs:301-304)
NewFrame(kind, size) ==
    [ kind     |-> kind,
      size     |-> size,
      pc       |-> "extend",
      saved_sp |-> 0,
      view     |-> NoView,
      stale    |-> FALSE,         \* the region held leftover non-zero bytes
      rval     |-> RvalUninit,
      did      |-> NoOutcome,     \* how the caller's computation ended
      got      |-> NoOutcome ]    \* what its last nested call handed it

Depth == Len(a_stack)
Top == a_stack[Depth]
SetTop(f) == [a_stack EXCEPT ![Depth] = f]
InCallback(f) == f.pc \in {"entry", "running"}

\* no alloca call is being followed (SpecOverlay, SpecFill)
AllocaIdle ==
    /\ a_stack = << >>
    /\ a_live = << >>
    /\ a_sp = StackSize + 1
    /\ a_mem = [a \in StackAddrs |-> 0]
    /\ a_result = NoOutcome
    /\ a_fatal = FALSE

\* lib.rs:162-167, 301-304  alloca(size, callback) is called, by the
\* outermost caller or by the computation running in the innermost region
alloca_call(kind, size) ==
    /\ ~a_fatal
    /\ IF a_stack = << >>
         THEN /\ a_stack' = << NewFrame(kind, size) >>
              /\ a_result' = NoOutcome
         ELSE /\ InCallback(Top)
              /\ Depth < MaxDepth
              /\ a_stack' = Append(SetTop([Top EXCEPT !.pc = "running",
                                                      !.got = NoOutcome]),
                                   NewFrame(kind, size))
              /\ UNCHANGED a_result
    /\ UNCHANGED << a_live, a_sp, a_mem, a_fatal >>
    /\ UNCHANGED outside_alloca

\* lib.rs:197  ffi::alloca_trampoline(size, trampoline, data): the extender
\* grows the stack by `size` bytes and is about to invoke the trampoline
alloca_trampoline_extend ==
    /\ ~a_fatal
    /\ a_stack # << >>
    /\ Top.pc = "extend"
    /\ Top.size < a_sp
    /\ a_sp' = a_sp - Top.size
    /\ a_live' = Append(a_live, [base |-> a_sp', len |-> Top.size,
                                 depth |-> Depth])
    /\ a_stack' = SetTop([Top EXCEPT !.pc = "trampoline",
                                     !.saved_sp = a_sp])
    /\ UNCHANGED << a_mem, a_result, a_fatal >>
    /\ UNCHANGED outside_alloca

\* ... or the stack cannot hold `size` more bytes: fatal, the process ends
alloca_trampoline_exhausted ==
    /\ ~a_fatal
    /\ a_stack # << >>
    /\ Top.pc = "extend"
    /\ ~(Top.size < a_sp)
    /\ a_fatal' = TRUE
    /\ UNCHANGED << a_stack, a_live, a_sp, a_mem, a_result >>
    /\ UNCHANGED outside_alloca

\* lib.rs:188-191, 168-171 (and 304-309 for alloca_zeroed): the trampoline
\* calls the closure, which builds the slice over (allocad_ptr, size) and
\* enters the caller's computation; alloca_zeroed zeroes the slice first
trampoline_enter ==
    /\ ~a_fatal
    /\ a_stack # << >>
    /\ Top.pc = "trampoline"
    /\ LET slice == [start |-> a_sp, len |-> Top.size]
           region == slice.start .. (slice.start + slice.len - 1)
       IN /\ a_stack' = SetTop([Top EXCEPT
                              !.pc = "entry",
                              !.view = slice,
                              !.stale = \E a \in region : a_mem[a] # 0])
          /\ a_mem' = IF Top.kind = "alloca_zeroed"
                        THEN write_bytes(a_mem, slice.start, slice.len)
                        ELSE a_mem
    /\ UNCHANGED << a_live, a_sp, a_result, a_fatal >>
    /\ UNCHANGED outside_alloca

\* the computation writes byte b into slot i of its view
callback_write(i, b) ==
    /\ ~a_fatal
    /\ a_stack # << >>
    /\ InCallback(Top)
    /\ i < Top.view.len
    /\ a_mem' = [a_mem EXCEPT ![Top.view.start + i] = b]
    /\ a_stack' = SetTop([Top EXCEPT !.pc = "running"])
    /\ UNCHANGED << a_live, a_sp, a_result, a_fatal >>
    /\ UNCHANGED outside_alloca

\* lib.rs:175-181  the computation ends, by returning a value or by
\* panicking (a panic re-raised by a nested alloca keeps unwinding through
\* it); the closure stores catch_unwind's result in rval and the trampoline
\* returns to the extender
trampoline_store(outcome) ==
    /\ ~a_fatal
    /\ a_stack # << >>
    /\ IF Top.pc = "unwinding" THEN outcome = Top.got ELSE InCallback(Top)
    /\ a_stack' = SetTop([Top EXCEPT !.pc = "stored",
                                     !.did = outcome,
                                     !.rval = catch_unwind(outcome)])
    /\ UNCHANGED << a_live, a_sp, a_mem, a_result, a_fatal >>
    /\ UNCHANGED outside_alloca

\* lib.rs:197  ffi::alloca_trampoline returns: its frame, the region
\* included, is popped and the stack pointer is what it was before the call
alloca_trampoline_return ==
    /\ ~a_fatal
    /\ a_stack # << >>
    /\ Top.pc = "stored"
    /\ a_sp' = Top.saved_sp
    /\ a_live' = SelectSeq(a_live, LAMBDA r : r.depth < Depth)
    /\ a_stack' = SetTop([Top EXCEPT !.pc = "reclaimed"])
    /\ UNCHANGED << a_mem, a_result, a_fatal >>
    /\ UNCHANGED outside_alloca

\* alloca hands `outcome` to whoever called it
Deliver(outcome) ==
    /\ IF Depth = 1
         THEN /\ a_stack' = << >>
              /\ a_result' = outcome
         ELSE /\ a_stack' =
                   [SubSeq(a_stack, 1, Depth - 1) EXCEPT ![Depth - 1] =
                       [@ EXCEPT !.got = outcome,
                                 !.pc = IF outcome.tag = "panic"
                                          THEN "unwinding" ELSE "running"]]
              /\ UNCHANGED a_result

\* the panic is re-raised from inside the trampoline, before the extender
\* has returned
alloca_return_inside_trampoline ==
    /\ ~a_fatal
    /\ a_stack # << >>
    /\ Top.pc \in {"stored", "reclaimed"}
    /\ Deliver(alloca_match(Top.rval))
    /\ UNCHANGED << a_live, a_sp, a_mem, a_fatal >>
    /\ UNCHANGED outside_alloca

\* lib.rs:198-206  rval.assume_init(), then the value is returned or the
\* panic resumed
alloca_return ==
    /\ ~a_fatal
    /\ a_stack # << >>
    /\ Top.pc = "reclaimed"
    /\ Deliver(alloca_match(Top.rval))
    /\ UNCHANGED << a_live, a_sp, a_mem, a_fatal >>
    /\ UNCHANGED outside_alloca

AllocaNext ==
    \/ \E kind \in {"alloca", "alloca_zeroed"}, size \in Sizes :
           alloca_call(kind, size)
    \/ alloca_trampoline_extend
    \/ alloca_trampoline_exhausted
    \/ trampoline_enter
    \/ \E i \in 0 .. (MaxSize - 1), b \in Bytes : callback_write(i, b)
    \/ \E outcome \in Outcomes : trampoline_store(outcome)
    \/ alloca_trampoline_return
    \/ alloca_return

(***************************************************************************)
(* The initialization strategies (lib.rs:337-453).  Every one of them runs *)
(* inside the closure it hands to stackalloc_uninit, i.e. inside alloca's  *)
(* capture boundary with the byte region live.  T is an instrumented type: *)
(* each slot records whether it holds a value and how often its destructor *)
(* has run.                                                                *)
(***************************************************************************)
WithFamily == {"stackalloc_with", "stackalloc", "stackalloc_with_default"}
IterFamily == {"stackalloc_with_iter", "stackalloc_from_iter_exact",
               "stackalloc_from_iter_trusted"}

\* the instrumented element type's layout.  The slot counts of SpecFill keep
\* size_bytes within the machine word; SpecOverlay covers the counts that
\* do not.
FillElemType == [size |-> 4, align |-> 4]

ItemValues == {1, 2}
SeqsUpTo(n) == UNION { [1 .. k -> ItemValues] : k \in 0 .. n }
NoneHint == -1

\* one MaybeUninit<T> slot
UninitSlot == [init |-> FALSE, v |-> 0, drops |-> 0]
Filled == Cardinality({ i \in DOMAIN f_buf : f_buf[i].init })
\* destructor runs on the first n slots of buf
TotalDrops(buf, n) ==
    LET Sum[k \in 0 .. n] ==
            IF k = 0 THEN 0 ELSE Sum[k - 1] + buf[k].drops
    IN Sum[n]

\* lib.rs:429  iter.len();  lib.rs:449-452  the upper size hint if there is
\* one, else the lower;  otherwise the caller's `size`
strategy_size(strategy, size, src) ==
    CASE strategy = "stackalloc_from_iter_exact" -> src.report
      [] strategy = "stackalloc_from_iter_trusted" ->
             IF src.hi # NoneHint THEN src.hi ELSE src.lo
      [] OTHER -> size

\* the zip with the source on the left: the source is asked first, so an
\* element is pulled (and lost) when no slot is left for it
zip_next_source_first(count, done, src) ==
    IF src.pos < Len(src.items)
      THEN IF done < count
             THEN [kind |-> "item", pulled |-> 1]
             ELSE [kind |-> "end", pulled |-> 1]
      ELSE [kind |-> "end", pulled |-> 0]

\* lib.rs:396  buf.iter_mut().zip(iter.into_iter()): one step of Zip::next.
\* The slots are asked first; only when one is left is the source asked.
zip_next(count, done, src) ==
    IF done < count
      THEN IF src.pos < Len(src.items)
             THEN [kind |-> "item", pulled |-> 1]
             ELSE [kind |-> "end", pulled |-> 0]
      ELSE [kind |-> "end", pulled |-> 0]

\* the slice is not shrunk
slice_to_whole(buf, done) == [i \in 1 .. Len(buf) |-> buf[i].v]

\* lib.rs:403  &mut buf[..done] (lib.rs:344: the whole buf), as the element
\* values the callback sees
slice_to(buf, done) == [i \in 1 .. done |-> buf[i].v]

\* the last element is not dropped
drop_in_place_but_last(buf, n) ==
    [i \in 1 .. Len(buf) |->
        IF i < n THEN [buf[i] EXCEPT !.drops = @ + 1] ELSE buf[i]]

\* lib.rs:350, 410  ptr::drop_in_place(buf as *mut [T]) on the n-element
\* slice handed to the callback
drop_in_place(buf, n) ==
    [i \in 1 .. Len(buf) |->
        IF i <= n THEN [buf[i] EXCEPT !.drops = @ + 1] ELSE buf[i]]

\* no initialization strategy is being followed (SpecOverlay, SpecAlloca)
FillIdle ==
    /\ f_pc = "idle"
    /\ f_strategy = "stackalloc_with"
    /\ f_size = 0
    /\ f_needs_drop = FALSE
    /\ f_src = [items |-> << >>, pos |-> 0, report |-> 0, lo |-> 0,
                hi |-> NoneHint]
    /\ f_count = 0
    /\ f_buf = << >>
    /\ f_done = 0
    /\ f_view = << >>
    /\ f_live = FALSE
    /\ f_rval = RvalUninit
    /\ f_did = NoOutcome
    /\ f_result = NoOutcome

\* the arguments of one call of a strategy
FillStart ==
    /\ f_pc = "call"
    /\ f_strategy \in WithFamily \cup IterFamily
    /\ f_needs_drop \in BOOLEAN
    /\ f_size \in IF f_strategy \in {"stackalloc_from_iter_exact",
                                     "stackalloc_from_iter_trusted"}
                    THEN {0} ELSE 0 .. MaxSlots
    /\ \E items \in (IF f_strategy \in IterFamily
                       THEN SeqsUpTo(MaxItems) ELSE {<< >>}),
          report \in (IF f_strategy = "stackalloc_from_iter_exact"
                        THEN 0 .. MaxSlots ELSE {0}),
          lo \in (IF f_strategy = "stackalloc_from_iter_trusted"
                    THEN {0, 1} ELSE {0}),
          hi \in (IF f_strategy = "stackalloc_from_iter_trusted"
                    THEN {NoneHint} \cup (1 .. MaxSlots) ELSE {NoneHint}) :
          f_src = [items |-> items, pos |-> 0, report |-> report,
                   lo |-> lo, hi |-> hi]
    /\ f_count = 0
    /\ f_buf = << >>
    /\ f_done = 0
    /\ f_view = << >>
    /\ f_live = FALSE
    /\ f_rval = RvalUninit
    /\ f_did = NoOutcome
    /\ f_result = NoOutcome

\* the closure given to alloca ends with `outcome`: catch_unwind stores it
\* in rval (lib.rs:179) and the trampoline returns
FillStore(outcome) ==
    /\ f_did' = outcome
    /\ f_rval' = catch_unwind(outcome)
    /\ f_pc' = "stored"

\* lib.rs:341, 394 (366, 379, 429, 449)  the strategy calls
\* stackalloc_uninit(size, ..), which calls alloca: the region is live
strategy_call ==
    /\ f_pc = "call"
    /\ f_count' = strategy_size(f_strategy, f_size, f_src)
    /\ f_live' = TRUE
    /\ f_pc' = "overlay"
    /\ UNCHANGED << f_strategy, f_size, f_needs_drop, f_src, f_buf, f_done,
                    f_view, f_rval, f_did, f_result >>
    /\ UNCHANGED outside_fill

\* lib.rs:324-328  stackalloc_uninit hands its closure the view of
\* f_count uninitialised slots
strategy_enter ==
    /\ f_pc = "overlay"
    /\ f_buf' = [i \in 1 .. f_count |-> UninitSlot]
    /\ f_pc' = "fill"
    /\ UNCHANGED << f_strategy, f_size, f_needs_drop, f_src, f_count, f_done,
                    f_view, f_live, f_rval, f_did, f_result >>
    /\ UNCHANGED outside_fill

\* lib.rs:325  ... or, in the debug profile, its assertion fails for the
\* base address the region happens to have, and the call panics
strategy_overlay_asserts ==
    /\ f_pc = "overlay"
    /\ ~size_bytes_overflows(FillElemType, f_count)
    /\ \E p \in 1 .. (UsizeModulus - 1) :
          /\ p + size_bytes(FillElemType, f_count) < UsizeModulus
          /\ ~as_ptr_range_contains(p, size_bytes(FillElemType, f_count),
                                    align_buffer_to(p, align_of(FillElemType)))
    /\ FillStore([tag |-> "panic", val |-> "assertion failed"])
    /\ UNCHANGED << f_strategy, f_size, f_needs_drop, f_src, f_count, f_buf,
                    f_done, f_view, f_live, f_result >>
    /\ UNCHANGED outside_fill

\* lib.rs:342  buf.fill_with(move || MaybeUninit::new(init_with())): the
\* next slot is written with what init_with (init.clone, T::default) made
fill_with_next ==
    /\ f_pc = "fill"
    /\ f_strategy \in WithFamily
    /\ Filled < f_count
    /\ f_buf' = [f_buf EXCEPT ![Filled + 1] =
                    [init |-> TRUE, v |-> 1, drops |-> 0]]
    /\ UNCHANGED << f_pc, f_strategy, f_size, f_needs_drop, f_src, f_count,
                    f_done, f_view, f_live, f_rval, f_did, f_result >>
    /\ UNCHANGED outside_fill

\* lib.rs:342  ... or init_with panics: the unwind leaves the closure (the
\* slots are MaybeUninit and nothing drops them)
fill_with_panics ==
    /\ f_pc = "fill"
    /\ f_strategy \in WithFamily
    /\ Filled < f_count
    /\ FillStore([tag |-> "panic", val |-> "boom"])
    /\ UNCHANGED << f_strategy, f_size, f_needs_drop, f_src, f_count, f_buf,
                    f_done, f_view, f_live, f_result >>
    /\ UNCHANGED outside_fill

\* lib.rs:344-345  every slot is written: callback(buf) over the whole view
stackalloc_with_callback ==
    /\ f_pc = "fill"
    /\ f_strategy \in WithFamily
    /\ Filled = f_count
    /\ f_view' = slice_to(f_buf, f_count)
    /\ f_pc' = "callback"
    /\ UNCHANGED << f_strategy, f_size, f_needs_drop, f_src, f_count, f_buf,
                    f_done, f_live, f_rval, f_did, f_result >>
    /\ UNCHANGED outside_fill

\* lib.rs:396-400  the zip yields a (slot, item) pair: *d = item; done += 1
stackalloc_with_iter_next ==
    /\ f_pc = "fill"
    /\ f_strategy \in IterFamily
    /\ zip_next(f_count, f_done, f_src).kind = "item"
    /\ f_buf' = [f_buf EXCEPT ![f_done + 1] =
                    [init |-> TRUE, v |-> f_src.items[f_src.pos + 1],
                     drops |-> 0]]
    /\ f_done' = f_done + 1
    /\ f_src' = [f_src EXCEPT !.pos = @ + 1]
    /\ UNCHANGED << f_pc, f_strategy, f_size, f_needs_drop, f_count, f_view,
                    f_live, f_rval, f_did, f_result >>
    /\ UNCHANGED outside_fill

\* lib.rs:396  ... or the source's next() panics when asked
stackalloc_with_iter_panics ==
    /\ f_pc = "fill"
    /\ f_strategy \in IterFamily
    /\ f_done < f_count
    /\ FillStore([tag |-> "panic", val |-> "boom"])
    /\ UNCHANGED << f_strategy, f_size, f_needs_drop, f_src, f_count, f_buf,
                    f_done, f_view, f_live, f_result >>
    /\ UNCHANGED outside_fill

\* lib.rs:396, 401-405  the zip ends; the view is shrunk to `done` elements
\* and handed to the callback
stackalloc_with_iter_callback ==
    /\ f_pc = "fill"
    /\ f_strategy \in IterFamily
    /\ zip_next(f_count, f_done, f_src).kind = "end"
    /\ f_src' = [f_src EXCEPT
                    !.pos = @ + zip_next(f_count, f_done, f_src).pulled]
    /\ f_view' = slice_to(f_buf, f_done)
    /\ f_pc' = "callback"
    /\ UNCHANGED << f_strategy, f_size, f_needs_drop, f_count, f_buf, f_done,
                    f_live, f_rval, f_did, f_result >>
    /\ UNCHANGED outside_fill

\* lib.rs:345, 405  let ret = callback(buf): the callback returns
strategy_callback_returns ==
    /\ f_pc = "callback"
    /\ f_pc' = "drop"
    /\ UNCHANGED << f_strategy, f_size, f_needs_drop, f_src, f_count, f_buf,
                    f_done, f_view, f_live, f_rval, f_did, f_result >>
    /\ UNCHANGED outside_fill

\* lib.rs:345, 405  ... or it panics: the unwind leaves the closure past
\* the drop_in_place below
strategy_callback_panics ==
    /\ f_pc = "callback"
    /\ FillStore([tag |-> "panic", val |-> "boom"])
    /\ UNCHANGED << f_strategy, f_size, f_needs_drop, f_src, f_count, f_buf,
                    f_done, f_view, f_live, f_result >>
    /\ UNCHANGED outside_fill

\* lib.rs:346-353, 406-413  if needs_drop::<T>() { drop_in_place(buf) }; ret
strategy_drop ==
    /\ f_pc = "drop"
    /\ f_buf' = IF f_needs_drop
                  THEN drop_in_place(f_buf, Len(f_view))
                  ELSE f_buf
    /\ FillStore([tag |-> "ok", val |-> "v"])
    /\ UNCHANGED << f_strategy, f_size, f_needs_drop, f_src, f_count, f_done,
                    f_view, f_live, f_result >>
    /\ UNCHANGED outside_fill

\* lib.rs:197  ffi::alloca_trampoline returns: the region is reclaimed
strategy_trampoline_return ==
    /\ f_pc = "stored"
    /\ f_live' = FALSE
    /\ f_pc' = "reclaimed"
    /\ UNCHANGED << f_strategy, f_size, f_needs_drop, f_src, f_count, f_buf,
                    f_done, f_view, f_rval, f_did, f_result >>
    /\ UNCHANGED outside_fill

\* lib.rs:198-206  alloca returns the value or resumes the panic, and so
\* do stackalloc_uninit and the strategy
strategy_return ==
    /\ f_pc = "reclaimed"
    /\ f_result' = alloca_match(f_rval)
    /\ f_pc' = "returned"
    /\ UNCHANGED << f_strategy, f_size, f_needs_drop, f_src, f_count, f_buf,
                    f_done, f_view, f_live, f_rval, f_did >>
    /\ UNCHANGED outside_fill

FillNext ==
    \/ strategy_call
    \/ strategy_enter
    \/ strategy_overlay_asserts
    \/ fill_with_next
    \/ fill_with_panics
    \/ stackalloc_with_callback
    \/ stackalloc_with_iter_next
    \/ stackalloc_with_iter_panics
    \/ stackalloc_with_iter_callback
    \/ strategy_callback_returns
    \/ strategy_callback_panics
    \/ strategy_drop
    \/ strategy_trampoline_return
    \/ strategy_return

vars == << ovars, avars, fvars >>

OverlayInit == OverlayStart /\ AllocaIdle /\ FillIdle

SpecOverlay == OverlayInit /\ [][OverlayNext]_vars

AllocaInit == AllocaIdle /\ OverlayIdle /\ FillIdle

SpecAlloca == AllocaInit /\ [][AllocaNext]_vars

FillInit == FillStart /\ OverlayIdle /\ AllocaIdle

SpecFill == FillInit /\ [][FillNext]_vars

(***************************************************************************)
(* The overlay's properties.                                               *)
(***************************************************************************)
\* the least multiple of al that is >= p
FirstAlignedAtOrAfter(p, al) == ((p + al - 1) \div al) * al

\* C7: the element view handed to the callback starts at a multiple of
\* align_of(T), and its window [start, start + size_of(T) * count) lies
\* inside the byte region of size_of(T) * count + align_of(T) bytes that
\* alloca handed out, whatever T, count and the region's base address are.
C7_ViewAlignedInsideRegion ==
    o_pc = "callback" =>
        /\ o_view.start % align_of(o_T) = 0
        /\ o_size_bytes = size_bytes_exact(o_T, o_view.len)
        /\ o_base <= o_view.start
        /\ o_view.start + size_of(o_T) * o_view.len <= o_base + o_size_bytes

\* C9: the start chosen by align_buffer_to is the least multiple of
\* align_of(T) that is >= the region's base (the base itself when the base
\* is already aligned).
C9_StartIsFirstAlignedAddress ==
    o_pc \in {"assert", "callback", "returned"} =>
        o_abuf = FirstAlignedAtOrAfter(o_base, align_of(o_T))

\* C10: the debug assertion of stackalloc_uninit (the aligned start lies in
\* the byte region's half-open address range) never fails, for no count
\* (0 included), no element type (zero-sized ones included) and no base.
C10_AssertionNeverFails ==
    /\ o_panic # "assertion failed"
    /\ (o_pc = "assert" /\ o_debug) =>
           as_ptr_range_contains(o_base, o_size_bytes, o_abuf)

\* C11: the byte count stackalloc_uninit requests from alloca is
\* size_of(T) * count + align_of(T) itself, not that sum reduced modulo
\* 2^UsizeBits: once computed it is at least size_of(T) * count, and the
\* count-element view built at the aligned start ends within the region of
\* that many bytes.
C11_SizeBytesNeverWraps ==
    /\ o_pc \in {"alloca", "closure", "assert", "callback", "returned"}
         => /\ o_size_bytes = size_bytes_exact(o_T, o_count)
            /\ o_size_bytes >= size_of(o_T) * o_count
    /\ o_pc \in {"callback", "returned"}
         => o_view.start + size_of(o_T) * o_view.len
              <= o_base + o_size_bytes

(***************************************************************************)
(* Properties of alloca and alloca_zeroed.                                 *)
(***************************************************************************)
\* what the caller of the innermost invocation holds
Delivered == IF a_stack = << >> THEN a_result ELSE Top.got
LiveRegions == { a_live[i] : i \in DOMAIN a_live }
RegionOf(d) ==
    [base |-> a_stack[d].view.start, len |-> a_stack[d].size, depth |-> d]

\* C1: a panic of the computation is captured inside the trampoline (rval
\* holds Err(payload) while the region is still live), and when alloca then
\* hands control back to its caller, the caller gets that panic with the
\* original payload, never a value, and the region has been reclaimed (the
\* extender has returned and the stack pointer is restored).
C1_PanicReraisedAfterReclaim ==
    /\ [](\A d \in 1 .. Depth :
             (a_stack[d].did.tag = "panic"
                /\ a_stack[d].pc \in {"stored", "reclaimed"})
             => a_stack[d].rval = [tag |-> "Err", val |-> a_stack[d].did.val])
    /\ [][ (a_stack # << >> /\ Len(a_stack') = Depth - 1
              /\ Top.did.tag = "panic")
           => /\ Delivered' = [tag |-> "panic", val |-> Top.did.val]
              /\ \A r \in LiveRegions : r.depth < Depth
              /\ a_sp = Top.saved_sp ]_vars

\* a panic with its payload has reached the outermost caller
C1_Witness ==
    /\ a_stack = << >>
    /\ a_live = << >>
    /\ a_result = [tag |-> "panic", val |-> "boom"]

\* C6: nested invocations are strictly LIFO.  While an invocation runs its
\* computation its region is live; while an inner invocation exists the
\* outer computation is suspended in its callback with its region live and
\* of unchanged extent; and whenever a region is reclaimed no region of a
\* deeper invocation is live any more, the inner computation having
\* returned or panicked.
C6_NestedRegionsLifo ==
    /\ [](\A d \in 1 .. Depth :
             /\ a_stack[d].pc \in {"entry", "running", "unwinding", "stored"}
                  => RegionOf(d) \in LiveRegions
             /\ d < Depth => InCallback(a_stack[d]))
    /\ [][ \A r \in LiveRegions :
              r \notin LiveRegions'
                => /\ \A q \in LiveRegions : q.depth <= r.depth
                   /\ LiveRegions' = LiveRegions \ {r} ]_vars

\* an inner computation has panicked and its region is reclaimed while the
\* outer, non-empty region is still live
C6_Witness ==
    /\ Depth = 2
    /\ a_stack[2].pc = "reclaimed"
    /\ a_stack[2].rval.tag = "Err"
    /\ a_stack[2].size > 0
    /\ a_stack[1].size > 0
    /\ LiveRegions = { RegionOf(1) }

\* C8: when the computation passed to alloca_zeroed(n, ..) is entered, its
\* view has length n and every byte of it is 0, whatever the stack held.
C8_ZeroedAtEntry ==
    \A d \in 1 .. Depth :
        (a_stack[d].kind = "alloca_zeroed" /\ a_stack[d].pc = "entry")
        => /\ a_stack[d].view.len = a_stack[d].size
           /\ \A k \in 0 .. (a_stack[d].view.len - 1) :
                  a_mem[a_stack[d].view.start + k] = 0

\* alloca_zeroed's computation is entered over a region in which an earlier,
\* already reclaimed invocation had left non-zero bytes
C8_Witness ==
    /\ Depth = 1
    /\ Top.kind = "alloca_zeroed"
    /\ Top.pc = "entry"
    /\ Top.size = MaxSize
    /\ Top.stale

(***************************************************************************)
(* Properties of the initialization strategies.                            *)
(***************************************************************************)
Min(a, b) == IF a <= b THEN a ELSE b
Drops == TotalDrops(f_buf, Len(f_buf))
AfterClosure == {"stored", "reclaimed", "returned"}

\* C2: with a destructible element type, when a panic is raised after
\* j < count slots have been filled, exactly j destructors run (one per
\* filled slot) and the caller observes the panic once the call is over.
C2_PartialFillDestroyed ==
    (f_pc = "returned" /\ f_needs_drop /\ f_did.tag = "panic"
       /\ Filled < f_count)
    => /\ f_result.tag = "panic"
       /\ Drops = Filled
       /\ \A i \in DOMAIN f_buf :
              f_buf[i].drops = (IF f_buf[i].init THEN 1 ELSE 0)

\* C3: stackalloc / stackalloc_with / stackalloc_with_default with a
\* destructible element type and count k: no slot is destroyed before the
\* callback has returned; once the closure has returned normally (the region
\* still being live) each of the k slots is filled and destroyed exactly
\* once; and so it stays after the region is reclaimed and the call returns.
C3_AllSlotsDestroyedOnce ==
    (f_strategy \in WithFamily /\ f_needs_drop)
    => /\ f_pc \in {"call", "overlay", "fill", "callback", "drop"}
            => Drops = 0
       /\ (f_pc \in AfterClosure /\ f_did.tag = "ok")
            => /\ Len(f_buf) = f_count
               /\ \A i \in DOMAIN f_buf :
                      f_buf[i].init /\ f_buf[i].drops = 1
       /\ (f_pc = "stored" /\ f_did.tag = "ok") => f_live
       /\ (f_pc = "returned" /\ f_did.tag = "ok")
            => ~f_live /\ f_result.tag = "ok"

\* fill-by-clone of MaxSlots destructible elements has returned normally
C3_Witness ==
    /\ f_strategy = "stackalloc"
    /\ f_needs_drop
    /\ f_count = MaxSlots
    /\ f_pc = "returned"
    /\ f_result.tag = "ok"
    /\ Drops = MaxSlots

\* C4: stackalloc_with_iter(count, seq, callback): the view handed to the
\* callback is the first min(count, n) elements of the n-element source, in
\* order.
C4_ViewIsPrefixOfSource ==
    (f_strategy = "stackalloc_with_iter" /\ f_pc = "callback")
    => /\ Len(f_view) = Min(f_count, Len(f_src.items))
       /\ f_view = SubSeq(f_src.items, 1, Min(f_count, Len(f_src.items)))

\* the callback is entered with a view shrunk to a shorter source whose
\* elements differ
C4_Witness ==
    /\ f_strategy = "stackalloc_with_iter"
    /\ f_pc = "callback"
    /\ f_count = MaxSlots
    /\ Len(f_src.items) = 2
    /\ f_src.items[1] # f_src.items[2]
    /\ f_view = f_src.items

\* C5: stackalloc_from_iter_exact with reported length r and true length n:
\* at no time has the drain pulled more than r elements from the source, so
\* when n > r the elements after the first r are left in it; the view handed
\* to the callback is the first min(r, n) elements (length r when n > r,
\* length n when n < r), and nothing but those elements has been pulled.
C5_ExactDrainStopsAtReportedLength ==
    f_strategy = "stackalloc_from_iter_exact"
    => /\ f_src.pos <= f_src.report
       /\ f_pc = "callback"
            => /\ f_view = SubSeq(f_src.items, 1,
                                  Min(f_src.report, Len(f_src.items)))
               /\ f_src.pos = Len(f_view)

\* a source that reports fewer elements than it holds was drained, the call
\* is over, and the unreported elements were not pulled
C5_Witness ==
    /\ f_strategy = "stackalloc_from_iter_exact"
    /\ f_pc = "returned"
    /\ f_src.report = 1
    /\ Len(f_src.items) = MaxItems
    /\ Len(f_view) = 1
    /\ f_src.pos = 1

====
